---- MODULE Spec2Model ----
(***************************************************************************)
(* Model of server.js: the Express application with its User collection,   *)
(* registration, login, the authenticateJWT middleware, the send-email     *)
(* route behind multer's upload.array, and the /api/data listing.          *)
(* Every request is handled by a process p; the awaits and callbacks of a  *)
(* handler are the points where handlers of other requests interleave.     *)
(***************************************************************************)
EXTENDS Integers, Sequences, FiniteSets, TLC

\* ---------------------------------------------------------------- bounds
MaxTo    == 2      \* length of a request's "to" list
MaxFiles == 2      \* attachments of one request
MaxTicks == 3      \* clock advances in one run
TickStep == 1800   \* seconds the clock advances in one step

\* ------------------------------------------------------- program constants
ExpiresIn == 3600  \* jwt.sign(..., { expiresIn: "1h" }), in seconds

Procs     == {1, 2}            \* requests being handled at the same time
Emails    == {"a@x", "b@x", "ghost@x"}
Known     == {"a@x", "b@x"}    \* the identifiers that registration is tried with
Passwords == {"pw123", "other"}
Salts     == {"saltA", "saltB"}
FileNames == {"f1.txt"}

jwtSecret   == "JWT_SECRET"
AttackerKey == "not-the-secret"

VARIABLES
  users,       \* the User collection: sequence of documents, in insertion order
  uploads,     \* paths of the files in the uploads/ directory
  clock,       \* Date.now(), in seconds
  clientToken, \* the token the client keeps from its latest successful login
  registered,  \* <<email, password>> of every registration answered 201, in order
  pc,          \* where each handler stands
  req,         \* the request each handler serves
  loc,         \* the handler's local variables
  res          \* the responses written to the request so far

vars == <<users, uploads, clock, clientToken, registered, pc, req, loc, res>>

\* ------------------------------------------------------------ data shapes
NoUser  == [email |-> "", password |-> ""]
NoToken == [email |-> "", iat |-> 0, exp |-> 0, key |-> "", wellFormed |-> FALSE]
NoMail  == [from |-> "", to |-> "", subject |-> "", text |-> "", attachments |-> <<>>]

\* a credential that is not a JWT at all
Malformed == [email |-> "", iat |-> 0, exp |-> 0, key |-> "garbage", wellFormed |-> FALSE]

NoReq == [route |-> "", email |-> "", password |-> "", to |-> <<>>,
          multipart |-> FALSE, files |-> <<>>, authorization |-> <<>>,
          at |-> 0, pre |-> NoUser]

NoLoc == [user |-> NoUser, hashedPassword |-> "", files |-> <<>>,
          storageFailed |-> FALSE, handlerRan |-> FALSE,
          recipientEmails |-> <<>>, mailOptions |-> NoMail,
          sendMailCalls |-> 0, relayResults |-> <<>>,
          nextCalled |-> FALSE, reqUser |-> NoToken]

Response(status, message) ==
  [status |-> status, message |-> message, token |-> NoToken, email |-> "",
   rows |-> <<>>, info |-> ""]

Range(s) == {s[i] : i \in 1..Len(s)}

\* ----------------------------------------------------------------- bcrypt
\* bcrypt.hash(password, 10) with the salt it generated: the salt, and a
\* digest of salt and password
BcryptHashPlain(password, salt) == password
BcryptHash(password, salt) ==
  "$2a$10$" \o salt \o "$H(" \o salt \o "," \o password \o ")"

\* bcrypt.compare(password, hash): re-hash with the salt the hash carries
BcryptCompare(password, hash) ==
  \E salt \in Salts : hash = BcryptHash(password, salt)

\* ------------------------------------------------------------ jsonwebtoken
\* jwt.sign({ email }, jwtSecret, { expiresIn: "1h" })
JwtSignNoWindow(email, key, now) ==
  [email |-> email, iat |-> now, exp |-> now, key |-> key, wellFormed |-> TRUE]
JwtSign(email, key, now) ==
  [email |-> email, iat |-> now, exp |-> now + ExpiresIn, key |-> key,
   wellFormed |-> TRUE]

\* jwt.verify(token, jwtSecret, cb): the err and the payload handed to cb
JwtVerifyNoExpiry(token, key, now) ==
  IF ~token.wellFormed \/ token.key # key
  THEN [err |-> "JsonWebTokenError", payload |-> NoToken]
  ELSE [err |-> "", payload |-> token]
JwtVerify(token, key, now) ==
  IF ~token.wellFormed THEN [err |-> "JsonWebTokenError", payload |-> NoToken]
  ELSE IF token.key # key THEN [err |-> "JsonWebTokenError", payload |-> NoToken]
  ELSE IF now >= token.exp THEN [err |-> "TokenExpiredError", payload |-> NoToken]
  ELSE [err |-> "", payload |-> token]

\* authenticateJWT(req, res, next) on the words of the Authorization header
\* (<<>> when the header is absent): what it sends, whether it calls next,
\* and req.user
AuthenticateJWT(authorization, now) ==
  IF Len(authorization) < 2
  THEN [sent |-> <<Response(401, "Unauthorized")>>, next |-> FALSE, user |-> NoToken]
  ELSE LET v == JwtVerify(authorization[2], jwtSecret, now) IN
       IF v.err # ""
       THEN [sent |-> <<Response(403, "Forbidden")>>, next |-> FALSE, user |-> NoToken]
       ELSE [sent |-> <<>>, next |-> TRUE, user |-> v.payload]

\* ---------------------------------------------------------------- mongoose
\* User.findOne({ email })
FindOne(email) ==
  IF \E i \in 1..Len(users) : users[i].email = email
  THEN users[CHOOSE i \in 1..Len(users) : users[i].email = email]
  ELSE NoUser

\* the orders in which the elements of set S can be listed
Orderings(S) ==
  {s \in [1..Cardinality(S) -> S] : \A i, j \in 1..Cardinality(S) : s[i] = s[j] => i = j}

\* the identifiers in the order of the index on email
EmailsInKeyOrder == <<"a@x", "b@x", "ghost@x">>
KeyRank(email) == CHOOSE i \in 1..Len(EmailsInKeyOrder) : EmailsInKeyOrder[i] = email

\* User.find({ email: { $in: to } }, "email"): the documents whose email is
\* one of to, each once, reduced to their email. The query has no sort: the
\* documents come in the collection's order or, when the server answers
\* from the unique index on email, in the order of their keys.
FindInAll(to) == {[i \in 1..Len(users) |-> [email |-> users[i].email]]}
FindIn(to) ==
  LET InTo(u) == u.email \in Range(to)
      natural == SelectSeq(users, InTo)
      docs    == [i \in 1..Len(natural) |-> [email |-> natural[i].email]]
      byKey   == CHOOSE s \in Orderings(Range(docs)) :
                   \A i, j \in 1..Len(s) :
                     i < j => KeyRank(s[i].email) < KeyRank(s[j].email)
  IN {docs, byKey}

\* Array.prototype.join(",")
RECURSIVE Join(_)
Join(s) ==
  IF Len(s) = 0 THEN ""
  ELSE IF Len(s) = 1 THEN s[1]
  ELSE s[1] \o "," \o Join(Tail(s))

\* multer's diskStorage: destination "uploads/", filename `${Date.now()}-${originalname}`
StoredPath(now, originalname) ==
  "uploads/" \o ToString(now) \o "-" \o originalname

\* ------------------------------------------------------------------- Init
Init ==
  /\ users = <<>>
  /\ uploads = {}
  /\ clock = 0
  /\ clientToken = NoToken
  /\ registered = <<>>
  /\ pc = [p \in Procs |-> "idle"]
  /\ req = [p \in Procs |-> NoReq]
  /\ loc = [p \in Procs |-> NoLoc]
  /\ res = [p \in Procs |-> <<>>]

Free(p) == pc[p] = "idle"

\* a request arrives at a free p and its handler starts
Arrive(p, r, at) ==
  /\ req' = [req EXCEPT ![p] = r]
  /\ loc' = [loc EXCEPT ![p] = NoLoc]
  /\ res' = [res EXCEPT ![p] = <<>>]
  /\ pc' = [pc EXCEPT ![p] = at]

\* res.status(..).send(..) ending the handler
Reply(p, response) ==
  /\ res' = [res EXCEPT ![p] = Append(@, response)]
  /\ pc' = [pc EXCEPT ![p] = "done"]

\* the response has gone out: the request is over and p takes the next one
Close(p) ==
  /\ pc[p] = "done"
  /\ pc' = [pc EXCEPT ![p] = "idle"]
  /\ req' = [req EXCEPT ![p] = NoReq]
  /\ loc' = [loc EXCEPT ![p] = NoLoc]
  /\ res' = [res EXCEPT ![p] = <<>>]
  /\ UNCHANGED <<users, uploads, clock, clientToken, registered>>

\* time passes
Tick ==
  /\ clock < MaxTicks * TickStep
  /\ clock' = clock + TickStep
  /\ UNCHANGED <<users, uploads, clientToken, registered, pc, req, loc, res>>

\* ----------------------------------------------------- POST /api/register
RegisterArrive(p, E, P) ==
  /\ Free(p)
  /\ \E email \in E, password \in P :
    /\ Arrive(p, [NoReq EXCEPT !.route = "register", !.email = email,
                               !.password = password,
                               !.pre = FindOne(email)], "reg_findOne")
    /\ UNCHANGED <<users, uploads, clock, clientToken, registered>>

\* const existingUser = await User.findOne({ email }); if (existingUser) 400
RegisterFindOneNoCheck(p) ==
  /\ pc[p] = "reg_findOne"
  /\ pc' = [pc EXCEPT ![p] = "reg_hash"]
  /\ UNCHANGED <<users, uploads, clock, clientToken, registered, req, loc, res>>
RegisterFindOne(p) ==
  /\ pc[p] = "reg_findOne"
  /\ LET existingUser == FindOne(req[p].email) IN
       IF existingUser # NoUser
       THEN Reply(p, Response(400, "Email already exists"))
       ELSE /\ pc' = [pc EXCEPT ![p] = "reg_hash"]
            /\ UNCHANGED res
  /\ UNCHANGED <<users, uploads, clock, clientToken, registered, req, loc>>

\* const hashedPassword = await bcrypt.hash(password, 10)
RegisterHash(p) ==
  /\ pc[p] = "reg_hash"
  /\ \E salt \in Salts :
       loc' = [loc EXCEPT ![p].hashedPassword = BcryptHash(req[p].password, salt)]
  /\ pc' = [pc EXCEPT ![p] = "reg_save"]
  /\ UNCHANGED <<users, uploads, clock, clientToken, registered, req, res>>

\* await user.save(): the unique index on email rejects a second document
\* with the same email, and the catch block answers 500
RegisterSave(p) ==
  /\ pc[p] = "reg_save"
  /\ IF FindOne(req[p].email) # NoUser
     THEN /\ Reply(p, Response(500, "Registration failed"))
          /\ UNCHANGED <<users, registered>>
     ELSE /\ users' = Append(users, [email |-> req[p].email,
                                     password |-> loc[p].hashedPassword])
          /\ registered' = Append(registered, <<req[p].email, req[p].password>>)
          /\ Reply(p, Response(201, "User registered successfully"))
  /\ UNCHANGED <<uploads, clock, clientToken, req, loc>>

\* -------------------------------------------------------- POST /api/login
LoginArrive(p, E, P) ==
  /\ Free(p)
  /\ \E email \in E, password \in P :
    /\ Arrive(p, [NoReq EXCEPT !.route = "login", !.email = email,
                               !.password = password], "login_findOne")
    /\ UNCHANGED <<users, uploads, clock, clientToken, registered>>

\* const user = await User.findOne({ email }); if (!user) 400
LoginFindOneTelling(p) ==
  /\ pc[p] = "login_findOne"
  /\ LET user == FindOne(req[p].email) IN
       IF user = NoUser
       THEN /\ Reply(p, Response(404, "User not found"))
            /\ UNCHANGED loc
       ELSE /\ loc' = [loc EXCEPT ![p].user = user]
            /\ pc' = [pc EXCEPT ![p] = "login_compare"]
            /\ UNCHANGED res
  /\ UNCHANGED <<users, uploads, clock, clientToken, registered, req>>
LoginFindOne(p) ==
  /\ pc[p] = "login_findOne"
  /\ LET user == FindOne(req[p].email) IN
       IF user = NoUser
       THEN /\ Reply(p, Response(400, "Invalid email or password"))
            /\ UNCHANGED loc
       ELSE /\ loc' = [loc EXCEPT ![p].user = user]
            /\ pc' = [pc EXCEPT ![p] = "login_compare"]
            /\ UNCHANGED res
  /\ UNCHANGED <<users, uploads, clock, clientToken, registered, req>>

\* const isMatch = await bcrypt.compare(password, user.password); if not 400;
\* else jwt.sign and res.send({ token, email, message })
LoginCompare(p) ==
  /\ pc[p] = "login_compare"
  /\ IF ~BcryptCompare(req[p].password, loc[p].user.password)
     THEN /\ Reply(p, Response(400, "Invalid email or password"))
          /\ UNCHANGED clientToken
     ELSE LET token == JwtSign(req[p].email, jwtSecret, clock) IN
          /\ Reply(p, [Response(200, "Login successful") EXCEPT
                         !.token = token, !.email = req[p].email])
          /\ clientToken' = token
  /\ UNCHANGED <<users, uploads, clock, registered, req, loc>>

\* ------------------------------------------------------- authenticateJWT
\* the Authorization headers a client can send: none, a scheme without a
\* credential, garbage, a token signed with another key, the token it holds
Headers ==
  {<<>>, <<"Bearer">>, <<"Bearer", Malformed>>,
   <<"Bearer", JwtSign("a@x", AttackerKey, clock)>>}
  \cup (IF clientToken = NoToken THEN {} ELSE {<<"Bearer", clientToken>>})

\* a request passes through the middleware
Authenticate(p) ==
  /\ Free(p)
  /\ \E authorization \in Headers :
    LET out == AuthenticateJWT(authorization, clock) IN
    /\ req' = [req EXCEPT ![p] = [NoReq EXCEPT !.route = "auth", !.at = clock,
                                               !.authorization = authorization]]
    /\ loc' = [loc EXCEPT ![p] = [NoLoc EXCEPT !.nextCalled = out.next,
                                               !.reqUser = out.user]]
    /\ res' = [res EXCEPT ![p] = out.sent]
    /\ pc' = [pc EXCEPT ![p] = "done"]
    /\ UNCHANGED <<users, uploads, clock, clientToken, registered>>

\* ----------------------------------------------------------- GET /api/data
DataArrive(p) ==
  /\ Free(p)
  /\ Arrive(p, [NoReq EXCEPT !.route = "data"], "data_find")
  /\ UNCHANGED <<users, uploads, clock, clientToken, registered>>

\* const users = await User.find({}, "email password"); res.send(html)
DataFind(p) ==
  /\ pc[p] = "data_find"
  /\ Reply(p, [Response(200, "User Details") EXCEPT !.rows = users])
  /\ UNCHANGED <<users, uploads, clock, clientToken, registered, req, loc>>

\* --------------------------------------------------- POST /api/send-email
\* the sequences over S of length at most n
SeqsUpTo(S, n) == UNION {[1..k -> S] : k \in 0..n}

\* the request arrives; upload.array("attachments") is the route's first
\* middleware, async (req, res) its only other one. A request that is not
\* multipart/form-data is passed on by multer with req.files left undefined.
SendArrive(p) ==
  /\ Free(p)
  /\ \E email \in Emails, to \in SeqsUpTo(Emails, MaxTo), multipart \in BOOLEAN,
     files \in SeqsUpTo(FileNames, MaxFiles), authorization \in Headers :
    /\ ~multipart => files = <<>>
    /\ Arrive(p, [NoReq EXCEPT !.route = "send-email", !.email = email,
                               !.to = to, !.multipart = multipart,
                               !.files = files, !.at = clock,
                               !.authorization = authorization],
              IF files = <<>> THEN "send_find" ELSE "send_upload")
    /\ UNCHANGED <<users, uploads, clock, clientToken, registered>>

\* multer stores the next file of the request. A failed write makes multer
\* remove the files it stored for this request and call next(err): the route
\* handler is skipped and Express's error handler answers 500.
UploadWriteIgnoringFailure(p) ==
  /\ pc[p] = "send_upload"
  /\ LET n == Len(loc[p].files) + 1
         file == [originalname |-> req[p].files[n],
                  path |-> StoredPath(clock, req[p].files[n])] IN
       \E ok \in BOOLEAN :
            /\ uploads' = IF ok THEN uploads \cup {file.path} ELSE uploads
            /\ loc' = [loc EXCEPT ![p].files = Append(@, file),
                                  ![p].storageFailed = @ \/ ~ok]
            /\ pc' = [pc EXCEPT ![p] = IF n = Len(req[p].files) THEN "send_find"
                                                               ELSE "send_upload"]
            /\ UNCHANGED res
  /\ UNCHANGED <<users, clock, clientToken, registered, req>>
UploadWrite(p) ==
  /\ pc[p] = "send_upload"
  /\ LET n == Len(loc[p].files) + 1
         file == [originalname |-> req[p].files[n],
                  path |-> StoredPath(clock, req[p].files[n])] IN
       \E ok \in BOOLEAN :
         IF ok
         THEN /\ uploads' = uploads \cup {file.path}
              /\ loc' = [loc EXCEPT ![p].files = Append(@, file)]
              /\ pc' = [pc EXCEPT ![p] = IF n = Len(req[p].files) THEN "send_find"
                                                                 ELSE "send_upload"]
              /\ UNCHANGED res
         ELSE /\ uploads' = uploads \ {loc[p].files[i].path : i \in 1..Len(loc[p].files)}
              /\ loc' = [loc EXCEPT ![p].storageFailed = TRUE]
              /\ Reply(p, Response(500, "Internal Server Error"))
  /\ UNCHANGED <<users, clock, clientToken, registered, req>>

\* the route handler up to the call of transporter.sendMail:
\* from = req.body.email; await User.find(...); recipientEmails; mailOptions.
\* req.files undefined makes attachments.map throw, and the catch answers 500.
SendFind(p) ==
  /\ pc[p] = "send_find"
  /\ \E recipientUsers \in FindIn(req[p].to) :
       LET recipientEmails == [i \in 1..Len(recipientUsers) |-> recipientUsers[i].email]
           mailOptions == [from |-> req[p].email,
                           to |-> Join(recipientEmails),
                           subject |-> "Hi",
                           text |-> "Test",
                           attachments |->
                             [i \in 1..Len(loc[p].files) |->
                                [filename |-> loc[p].files[i].originalname,
                                 path |-> loc[p].files[i].path]]] IN
       IF ~req[p].multipart
       THEN /\ loc' = [loc EXCEPT ![p].handlerRan = TRUE,
                                  ![p].recipientEmails = recipientEmails]
            /\ Reply(p, Response(500, "Failed to send email"))
       ELSE /\ loc' = [loc EXCEPT ![p].handlerRan = TRUE,
                                  ![p].recipientEmails = recipientEmails,
                                  ![p].mailOptions = mailOptions,
                                  ![p].sendMailCalls = @ + 1]
            /\ pc' = [pc EXCEPT ![p] = "send_mail"]
            /\ UNCHANGED res
  /\ UNCHANGED <<users, uploads, clock, clientToken, registered, req>>

\* the callback of transporter.sendMail(mailOptions, (error, info) => ...)
SendMailCallbackRetrying(p) ==
  /\ pc[p] = "send_mail"
  /\ \E error \in BOOLEAN :
       IF error /\ loc[p].sendMailCalls < 2
       THEN /\ loc' = [loc EXCEPT ![p].relayResults = Append(@, "error"),
                                  ![p].sendMailCalls = @ + 1]
            /\ UNCHANGED <<pc, res>>
       ELSE /\ loc' = [loc EXCEPT ![p].relayResults =
                                    Append(@, IF error THEN "error" ELSE "ok")]
            /\ Reply(p, IF error THEN Response(500, "Failed to send email")
                        ELSE [Response(200, "Email sent successfully")
                                EXCEPT !.info = "info"])
  /\ UNCHANGED <<users, uploads, clock, clientToken, registered, req>>
SendMailCallback(p) ==
  /\ pc[p] = "send_mail"
  /\ \E error \in BOOLEAN :
       IF error
       THEN /\ loc' = [loc EXCEPT ![p].relayResults = Append(@, "error")]
            /\ Reply(p, Response(500, "Failed to send email"))
       ELSE /\ loc' = [loc EXCEPT ![p].relayResults = Append(@, "ok")]
            /\ Reply(p, [Response(200, "Email sent successfully")
                           EXCEPT !.info = "info"])
  /\ UNCHANGED <<users, uploads, clock, clientToken, registered, req>>

\* the application with its requests handled one at a time
Next ==
  \/ Tick
  \/ RegisterArrive(1, Known, Passwords)
  \/ RegisterFindOne(1)
  \/ RegisterHash(1)
  \/ RegisterSave(1)
  \/ LoginArrive(1, Emails, Passwords)
  \/ LoginFindOne(1)
  \/ LoginCompare(1)
  \/ Authenticate(1)
  \/ DataArrive(1)
  \/ DataFind(1)
  \/ Close(1)

Spec == Init /\ [][Next]_vars

\* registrations handled concurrently
NextRegister ==
  \/ \E p \in Procs : RegisterArrive(p, Known, Passwords)
  \/ \E p \in Procs : RegisterFindOne(p)
  \/ \E p \in Procs : RegisterHash(p)
  \/ \E p \in Procs : RegisterSave(p)
  \/ \E p \in Procs : Close(p)

SpecRegister == Init /\ [][NextRegister]_vars

\* registering, logging in and sending, one request at a time
NextDispatch ==
  \/ RegisterArrive(1, Known, {"pw123"})
  \/ RegisterFindOne(1)
  \/ RegisterHash(1)
  \/ RegisterSave(1)
  \/ LoginArrive(1, Known, {"pw123"})
  \/ LoginFindOne(1)
  \/ LoginCompare(1)
  \/ SendArrive(1)
  \/ UploadWrite(1)
  \/ SendFind(1)
  \/ SendMailCallback(1)
  \/ Close(1)

SpecDispatch == Init /\ [][NextDispatch]_vars

\* logins handled concurrently, next to registrations
NextLogin ==
  \/ RegisterArrive(1, Known, Passwords)
  \/ RegisterFindOne(1)
  \/ RegisterHash(1)
  \/ RegisterSave(1)
  \/ \E p \in Procs : LoginArrive(p, Emails, Passwords)
  \/ \E p \in Procs : LoginFindOne(p)
  \/ \E p \in Procs : LoginCompare(p)
  \/ \E p \in Procs : Close(p)

SpecLogin == Init /\ [][NextLogin]_vars

\* ================================================================ claims
IsRoute(p, route) == req[p].route = route

\* the credential of p's request was issued by login (signed with jwtSecret)
SignedByService(p) ==
  /\ Len(req[p].authorization) = 2
  /\ req[p].authorization[2].wellFormed
  /\ req[p].authorization[2].key = jwtSecret

\* the requested identifiers of p's request that are registered
Matching(p) == {e \in Range(req[p].to) : FindOne(e) # NoUser}

\* s without the later occurrences of its elements
RECURSIVE FirstSeen(_)
FirstSeen(s) ==
  IF Len(s) = 0 THEN <<>>
  ELSE LET front == FirstSeen(SubSeq(s, 1, Len(s) - 1)) IN
       IF s[Len(s)] \in Range(front) THEN front ELSE Append(front, s[Len(s)])

IsRegisteredEmail(e) == FindOne(e) # NoUser

\* C1: a send-email request is handed to the Transport only if its
\* Authorization header carries a token that verification accepts, and the
\* message's sender is the identifier in that token.
C1_DispatchOnlyWithVerifiedToken ==
  \A p \in Procs :
    (IsRoute(p, "send-email") /\ loc[p].sendMailCalls > 0) =>
      LET gate == AuthenticateJWT(req[p].authorization, req[p].at) IN
      /\ gate.next
      /\ loc[p].mailOptions.from = gate.user.email

\* C2: a registration that arrives when the store already holds its
\* identifier is answered 400 "Email already exists", never goes on to hash
\* or save, and the store keeps exactly one principal for the identifier,
\* the one it held before, with the hash it had.
C2_DuplicateRegisterRejected ==
  \A p \in Procs :
    (IsRoute(p, "register") /\ req[p].pre # NoUser) =>
      /\ pc[p] \in {"reg_findOne", "done"}
      /\ pc[p] = "done" => res[p] = <<Response(400, "Email already exists")>>
      /\ Cardinality({i \in 1..Len(users) : users[i].email = req[p].email}) = 1
      /\ FindOne(req[p].email) = req[p].pre

C2_Witness ==
  \E p \in Procs :
    /\ IsRoute(p, "register") /\ req[p].pre # NoUser /\ pc[p] = "done"
    /\ ~BcryptCompare(req[p].password, req[p].pre.password)

\* C3: a login with a registered (identifier, secret) pair is answered 200
\* with a token for that identifier, and at every instant before issuance +
\* ExpiresIn the middleware accepts that token and sets req.user to the
\* identifier; a request that presents a service-signed token before its
\* expiry is passed on with req.user set to the token's identifier.
C3_RegisteredLoginVerifies ==
  \A p \in Procs :
    /\ (/\ IsRoute(p, "login") /\ pc[p] = "done"
        /\ <<req[p].email, req[p].password>> \in Range(registered)) =>
         /\ Len(res[p]) = 1
         /\ res[p][1].status = 200
         /\ res[p][1].email = req[p].email
         /\ clock < res[p][1].token.iat + ExpiresIn =>
              LET gate == AuthenticateJWT(<<"Bearer", res[p][1].token>>, clock) IN
              /\ gate.next
              /\ gate.sent = <<>>
              /\ gate.user.email = req[p].email
    /\ (/\ IsRoute(p, "auth") /\ pc[p] = "done" /\ SignedByService(p)
        /\ req[p].at < req[p].authorization[2].iat + ExpiresIn) =>
         /\ loc[p].nextCalled
         /\ res[p] = <<>>
         /\ loc[p].reqUser.email = req[p].authorization[2].email
         /\ \E i \in 1..Len(registered) : registered[i][1] = loc[p].reqUser.email

C3_Witness ==
  \E p \in Procs :
    /\ IsRoute(p, "auth") /\ pc[p] = "done" /\ SignedByService(p)
    /\ loc[p].nextCalled
    /\ req[p].at > loc[p].reqUser.iat
    /\ Len(users) = 2

\* C4: a login whose (identifier, secret) pair is not a registered one, be
\* the identifier unknown or the secret wrong, is answered 400 "Invalid email
\* or password" with no token, and any two such answers are equal.
FailedLogin(p) ==
  /\ IsRoute(p, "login") /\ pc[p] = "done"
  /\ <<req[p].email, req[p].password>> \notin Range(registered)

C5_ExpiryRejectionIsSpecific ==
  \A p \in Procs :
    (/\ IsRoute(p, "auth") /\ pc[p] = "done" /\ SignedByService(p)
     /\ req[p].at >= req[p].authorization[2].iat + ExpiresIn) =>
       /\ ~loc[p].nextCalled
       /\ res[p] # <<>>
       /\ res[p] # AuthenticateJWT(<<"Bearer", Malformed>>, req[p].at).sent
       /\ res[p] # AuthenticateJWT(
                     <<"Bearer", JwtSign("a@x", AttackerKey, req[p].at)>>, req[p].at).sent

\* C5 as amended: a service-signed token presented at or after issuance +
\* ExpiresIn is rejected with a bare 403 and next is not called; a malformed
\* or wrongly signed token gets the very same 403.
C5_ExpiredTokenForbidden ==
  \A p \in Procs :
    (IsRoute(p, "auth") /\ pc[p] = "done" /\ Len(req[p].authorization) = 2) =>
      /\ (/\ SignedByService(p)
          /\ req[p].at >= req[p].authorization[2].iat + ExpiresIn) =>
           /\ ~loc[p].nextCalled
           /\ loc[p].reqUser = NoToken
           /\ res[p] = <<Response(403, "Forbidden")>>
      /\ ~SignedByService(p) =>
           /\ ~loc[p].nextCalled
           /\ res[p] = <<Response(403, "Forbidden")>>

C5_Witness ==
  \E p \in Procs :
    /\ IsRoute(p, "auth") /\ pc[p] = "done" /\ SignedByService(p)
    /\ req[p].at = req[p].authorization[2].iat + ExpiresIn

\* C6 as stated: the recipients handed to the Transport are the requested
\* identifiers that are registered, each once, in the first-seen order of
\* the request's "to" list.
C6_RecipientsInFirstSeenOrder ==
  \A p \in Procs :
    (IsRoute(p, "send-email") /\ loc[p].sendMailCalls > 0) =>
      loc[p].mailOptions.to = Join(FirstSeen(SelectSeq(req[p].to, IsRegisteredEmail)))

\* C6 as amended: recipient resolution yields exactly the requested
\* identifiers that are registered, each once, in some order; unregistered
\* ones are left out without an error; the message handed to the Transport
\* is addressed to that sequence, joined by commas.
C6_RecipientsAreRegisteredRequested ==
  \A p \in Procs :
    (IsRoute(p, "send-email") /\ loc[p].handlerRan) =>
      /\ Range(loc[p].recipientEmails) = Matching(p)
      /\ Len(loc[p].recipientEmails) = Cardinality(Matching(p))
      /\ req[p].multipart => loc[p].sendMailCalls = 1
      /\ loc[p].sendMailCalls > 0 =>
           \E o \in Orderings(Matching(p)) : loc[p].mailOptions.to = Join(o)

C6_Witness ==
  \E p \in Procs :
    /\ IsRoute(p, "send-email") /\ loc[p].sendMailCalls = 1
    /\ req[p].to = <<"ghost@x", "a@x">>
    /\ Len(users) = 2
    /\ loc[p].mailOptions.to = "a@x"

\* C7: once a write of one of the request's attachments has failed, the
\* request is answered 500 and is over: the route handler has not run, no
\* recipient was resolved, no message was built and sendMail was not called.
C7_StorageFailureAbortsDispatch ==
  \A p \in Procs :
    (IsRoute(p, "send-email") /\ loc[p].storageFailed) =>
      /\ pc[p] = "done"
      /\ Len(res[p]) = 1 /\ res[p][1].status = 500
      /\ ~loc[p].handlerRan
      /\ loc[p].recipientEmails = <<>>
      /\ loc[p].mailOptions = NoMail
      /\ loc[p].sendMailCalls = 0
      /\ loc[p].relayResults = <<>>

C7_Witness ==
  \E p \in Procs :
    /\ IsRoute(p, "send-email") /\ loc[p].storageFailed
    /\ Len(loc[p].files) = 1 /\ Len(req[p].files) = 2

\* C8: every stored principal carries a salted hash of the secret its
\* registration submitted, and the stored value is not a plaintext secret.
C8_StoredSecretIsHash ==
  /\ Len(users) = Len(registered)
  /\ \A i \in 1..Len(users) :
       /\ users[i].email = registered[i][1]
       /\ BcryptCompare(registered[i][2], users[i].password)
       /\ users[i].password \notin Passwords

C8_Witness ==
  /\ Len(users) = 2
  /\ \E p \in Procs :
       /\ IsRoute(p, "data") /\ pc[p] = "done"
       /\ res[p][1].rows = users

\* C9: under concurrent registrations no identifier is stored twice, at
\* most one request per identifier is answered 201, and every other request
\* for it is answered 400 "Email already exists".
C9_ConcurrentRegisterOneCreated ==
  /\ \A i, j \in 1..Len(users) : users[i].email = users[j].email => i = j
  /\ \A i, j \in 1..Len(registered) : registered[i][1] = registered[j][1] => i = j
  /\ \A p \in Procs :
       (IsRoute(p, "register") /\ pc[p] = "done") =>
         \/ res[p] = <<Response(201, "User registered successfully")>>
         \/ res[p] = <<Response(400, "Email already exists")>>

\* C10: a request that reaches the Transport calls sendMail once, and is
\* answered once: 500 "Failed to send email" exactly when that call reported
\* an error, else 200 with the transport's info.
C10_OneRelayOneResponse ==
  \A p \in Procs :
    IsRoute(p, "send-email") =>
      /\ loc[p].sendMailCalls <= 1
      /\ Len(loc[p].relayResults) <= loc[p].sendMailCalls
      /\ pc[p] = "send_mail" => (loc[p].sendMailCalls = 1 /\ res[p] = <<>>)
      /\ (pc[p] = "done" /\ loc[p].sendMailCalls = 1) =>
           /\ Len(loc[p].relayResults) = 1
           /\ Len(res[p]) = 1
           /\ loc[p].relayResults[1] = "error" <=>
                res[p][1] = Response(500, "Failed to send email")
           /\ loc[p].relayResults[1] = "ok" <=>
                res[p][1] = [Response(200, "Email sent successfully")
                               EXCEPT !.info = "info"]

C10_Witness ==
  \E p \in Procs :
    /\ IsRoute(p, "send-email") /\ pc[p] = "done"
    /\ loc[p].relayResults = <<"error">>
    /\ loc[p].mailOptions.to = "a@x,b@x"
====
